---- MODULE Spec2Model ----
(***************************************************************************)
(* A model of the emoji list generator (generate/generate.go and its two   *)
(* cache-directory variants).                                              *)
(*                                                                         *)
(* A Go string is modelled as the sequence of its codepoints (every string *)
(* the program builds comes from string([]rune) or from decoded XML/text,  *)
(* so it is valid UTF-8); the UTF-8 bytes are computed where the code      *)
(* works on bytes (strings.Compare).                                       *)
(***************************************************************************)
EXTENDS Integers, Sequences, FiniteSets, TLC

-----------------------------------------------------------------------------
(* Characters and text *)

\* The codepoints of the ASCII characters the fixtures and the code use.
CharTable ==
    <<
       <<"0", 48>>, <<"1", 49>>, <<"2", 50>>, <<"3", 51>>, <<"4", 52>>, <<"5", 53>>,
       <<"6", 54>>, <<"7", 55>>, <<"8", 56>>, <<"9", 57>>, <<"A", 65>>, <<"B", 66>>,
       <<"C", 67>>, <<"D", 68>>, <<"E", 69>>, <<"F", 70>>, <<"G", 71>>, <<"H", 72>>,
       <<"I", 73>>, <<"J", 74>>, <<"K", 75>>, <<"L", 76>>, <<"M", 77>>, <<"N", 78>>,
       <<"O", 79>>, <<"P", 80>>, <<"Q", 81>>, <<"R", 82>>, <<"S", 83>>, <<"T", 84>>,
       <<"U", 85>>, <<"V", 86>>, <<"W", 87>>, <<"X", 88>>, <<"Y", 89>>, <<"Z", 90>>,
       <<"_", 95>>, <<"a", 97>>, <<"b", 98>>, <<"c", 99>>, <<"d", 100>>, <<"e", 101>>,
       <<"f", 102>>, <<"g", 103>>, <<"h", 104>>, <<"i", 105>>, <<"j", 106>>, <<"k", 107>>,
       <<"l", 108>>, <<"m", 109>>, <<"n", 110>>, <<"o", 111>>, <<"p", 112>>, <<"q", 113>>,
       <<"r", 114>>, <<"s", 115>>, <<"t", 116>>, <<"u", 117>>, <<"v", 118>>, <<"w", 119>>,
       <<"x", 120>>, <<"y", 121>>, <<"z", 122>>, <<" ", 32>>, <<"#", 35>>, <<"&", 38>>,
       <<"'", 39>>, <<"*", 42>>, <<"+", 43>>, <<"-", 45>>, <<".", 46>>, <<";", 59>>,
       <<"<", 60>>, <<"=", 61>>, <<"|", 124>>, <<":", 58>>, <<",", 44>>, <<"\t", 9>>,
       <<"\n", 10>>
    >>

\* The codepoint of a character.
Chr ==
    [c \in {CharTable[i][1] : i \in 1..Len(CharTable)} |->
        CharTable[CHOOSE i \in 1..Len(CharTable) : CharTable[i][1] = c][2]]

\* The Go string literal written as a tuple of one-character strings.
S(cs) == [i \in 1..Len(cs) |-> Chr[cs[i]]]

\* U+FE0F, the presentation selector removed by removePresentationSelector.
FE0F == 65039
\* utf8.RuneError, what string(rune) yields for an invalid rune.
RuneError == 65533
\* unicode.MaxRune.
MaxRune == 1114111
\* The surrogate range, invalid as runes.
SurrogateMin == 55296
SurrogateMax == 57343
\* The largest int32, the bitSize-32 limit of strconv.ParseInt.
MaxInt32 == 2147483647

\* unicode.IsSpace on the characters strings.TrimSpace trims.
WhiteSpace == {9, 10, 11, 12, 13, 32, 133, 160}

\* strings.HasPrefix(s, p)
HasPrefix(s, p) == Len(s) >= Len(p) /\ SubSeq(s, 1, Len(p)) = p

\* strings.Index(s, sep): the first position sep occurs at, 0 when none.
Index(s, sep) ==
    LET hits == {i \in 1..(Len(s) - Len(sep) + 1) : SubSeq(s, i, i + Len(sep) - 1) = sep}
    IN IF hits = {} THEN 0 ELSE CHOOSE i \in hits : \A j \in hits : i <= j

\* strings.Contains(s, sub)
Contains(s, sub) == Len(sub) = 0 \/ Index(s, sub) > 0

\* The result of strings.Cut for a separator first found at position i (0:
\* not found).
CutAt(s, sep, i) ==
    IF i = 0
    THEN [before |-> s, after |-> <<>>, found |-> FALSE]
    ELSE [before |-> SubSeq(s, 1, i - 1),
          after |-> SubSeq(s, i + Len(sep), Len(s)),
          found |-> TRUE]

\* strings.Cut(s, sep): before, after, found.
Cut(s, sep) == CutAt(s, sep, Index(s, sep))

\* strings.SplitN(s, sep, n) for n > 0 and a non-empty sep: at most n pieces,
\* the last one the unsplit remainder.
RECURSIVE SplitN(_, _, _)
SplitPieces(s, sep, n, c) ==
    IF n <= 1 \/ ~c.found THEN <<s>>
    ELSE <<c.before>> \o SplitN(c.after, sep, n - 1)

SplitN(s, sep, n) == SplitPieces(s, sep, n, Cut(s, sep))

\* strings.Split(s, sep) for a non-empty sep: every piece.
Split(s, sep) == SplitN(s, sep, Len(s) + 1)

\* strings.TrimSpace(s)
RECURSIVE TrimLeftSpace(_)
TrimLeftSpace(s) ==
    IF s # <<>> /\ Head(s) \in WhiteSpace THEN TrimLeftSpace(Tail(s)) ELSE s

RECURSIVE TrimRightSpace(_)
TrimRightSpace(s) ==
    IF s # <<>> /\ s[Len(s)] \in WhiteSpace
    THEN TrimRightSpace(SubSeq(s, 1, Len(s) - 1)) ELSE s

TrimSpace(s) == TrimRightSpace(TrimLeftSpace(s))

\* strings.FieldsFunc(s, f) with f the membership in seps: the maximal runs of
\* characters outside seps, no empty field.
RECURSIVE FieldsFunc(_, _)
FieldsFunc(s, seps) ==
    IF s = <<>> THEN <<>>
    ELSE IF Head(s) \in seps THEN FieldsFunc(Tail(s), seps)
    ELSE LET stops == {i \in 1..Len(s) : s[i] \in seps}
             n == IF stops = {} THEN Len(s) + 1
                  ELSE CHOOSE i \in stops : \A j \in stops : i <= j
         IN <<SubSeq(s, 1, n - 1)>> \o FieldsFunc(SubSeq(s, n, Len(s)), seps)

\* strings.Join(elems, sep)
RECURSIVE Join(_, _)
Join(elems, sep) ==
    IF elems = <<>> THEN <<>>
    ELSE IF Len(elems) = 1 THEN elems[1]
    ELSE elems[1] \o sep \o Join(Tail(elems), sep)

\* The concatenation of a sequence of sequences (append(a, b...) repeated).
RECURSIVE Flatten(_)
Flatten(ss) == IF ss = <<>> THEN <<>> ELSE Head(ss) \o Flatten(Tail(ss))

\* The elements of s that satisfy the membership test, in order.
SelectNotIn(s, set) == SelectSeq(s, LAMBDA x : x \notin set)

\* The UTF-8 bytes of one valid codepoint.
UTF8Rune(r) ==
    IF r < 128 THEN <<r>>
    ELSE IF r < 2048 THEN <<192 + (r \div 64), 128 + (r % 64)>>
    ELSE IF r < 65536
    THEN <<224 + (r \div 4096), 128 + ((r \div 64) % 64), 128 + (r % 64)>>
    ELSE <<240 + (r \div 262144), 128 + ((r \div 4096) % 64),
           128 + ((r \div 64) % 64), 128 + (r % 64)>>

\* The bytes of a string.
UTF8(s) == Flatten([i \in 1..Len(s) |-> UTF8Rune(s[i])])

\* Bytewise lexical comparison of two byte sequences: -1, 0 or 1.
RECURSIVE CompareBytes(_, _)
CompareBytes(a, b) ==
    IF a = <<>> /\ b = <<>> THEN 0
    ELSE IF a = <<>> THEN -1
    ELSE IF b = <<>> THEN 1
    ELSE IF Head(a) < Head(b) THEN -1
    ELSE IF Head(a) > Head(b) THEN 1
    ELSE CompareBytes(Tail(a), Tail(b))

\* strings.Compare(a, b)
StringsCompare(a, b) == CompareBytes(UTF8(a), UTF8(b))

\* string([]rune{r}): an invalid rune becomes U+FFFD.
RuneToString(r) ==
    IF r < 0 \/ r > MaxRune \/ (r >= SurrogateMin /\ r <= SurrogateMax)
    THEN <<RuneError>> ELSE <<r>>

\* string(runes)
RunesToString(rs) == Flatten([i \in 1..Len(rs) |-> RuneToString(rs[i])])

-----------------------------------------------------------------------------
(* The emoji table parser *)

\* The value of a hexadecimal digit, -1 for any other character (base 16 is
\* given explicitly, so an underscore is no digit separator).
HexDigit(c) ==
    IF c \in 48..57 THEN c - 48
    ELSE IF c \in 65..70 THEN c - 55
    ELSE IF c \in 97..102 THEN c - 87
    ELSE -1

\* The magnitude of a digit string, kept within 32 bits: "fit" with its value,
\* "min" for exactly 2^31, "over" beyond.
RECURSIVE HexMagnitude(_, _)
HexMagnitude(s, acc) ==
    IF s = <<>> THEN acc
    ELSE LET d == HexDigit(Head(s))
         IN HexMagnitude(Tail(s),
              IF acc.kind = "fit" /\ acc.v <= MaxInt32 \div 16
              THEN [kind |-> "fit", v |-> acc.v * 16 + d]
              ELSE IF acc.kind = "fit" /\ acc.v = (MaxInt32 \div 16) + 1 /\ d = 0
              THEN [kind |-> "min", v |-> 0]
              ELSE [kind |-> "over", v |-> 0])

\* The int32 of a magnitude and a sign, or the range error.
SignedValue(m, neg) ==
    IF m.kind = "fit" THEN [ok |-> TRUE, val |-> IF neg THEN 0 - m.v ELSE m.v]
    ELSE IF m.kind = "min" /\ neg THEN [ok |-> TRUE, val |-> (0 - MaxInt32) - 1]
    ELSE [ok |-> FALSE, val |-> 0]

\* The digits after the sign: a syntax error when there is none or one of
\* them is no hexadecimal digit.
ParseDigits(digits, neg) ==
    IF digits = <<>> \/ \E i \in 1..Len(digits) : HexDigit(digits[i]) < 0
    THEN [ok |-> FALSE, val |-> 0]
    ELSE SignedValue(HexMagnitude(digits, [kind |-> "fit", v |-> 0]), neg)

\* strconv.ParseInt(s, 16, 32): an optional sign, then hexadecimal digits; a
\* syntax error or a value outside int32 is an error.
ParseInt(s) ==
    IF s # <<>> /\ Head(s) \in {Chr["+"], Chr["-"]}
    THEN ParseDigits(Tail(s), Head(s) = Chr["-"])
    ELSE ParseDigits(s, FALSE)

\* The outcomes of parseEmojiDataLine: err is "" (nil), "format" (an error
\* value) or "panic" (make with a negative capacity).
ParseResult(emojis, tag, err) == [emojis |-> emojis, tag |-> tag, err |-> err]

\* A loop that stops one short of the end of the range.
RangeValuesExclusive(start, end, tag) ==
    IF ~start.ok THEN ParseResult(<<>>, <<>>, "format")
    ELSE IF ~end.ok THEN ParseResult(<<>>, <<>>, "format")
    ELSE IF end.val - start.val + 1 < 0 THEN ParseResult(<<>>, <<>>, "panic")
    ELSE ParseResult([k \in 1..(end.val - start.val) |->
                         RuneToString(start.val + k - 1)], tag, "")

\* The range branch once both bounds went through ParseInt: an error for a
\* bound that did not parse, a panic in make for a capacity below zero, else
\* one single-rune string per value of the inclusive range.
RangeValues(start, end, tag) ==
    IF ~start.ok THEN ParseResult(<<>>, <<>>, "format")
    ELSE IF ~end.ok THEN ParseResult(<<>>, <<>>, "format")
    ELSE IF end.val - start.val + 1 < 0 THEN ParseResult(<<>>, <<>>, "panic")
    ELSE ParseResult([k \in 1..(end.val - start.val + 1) |->
                         RuneToString(start.val + k - 1)], tag, "")

\* The range branch of parseEmojiDataLine.
ParseRange(startStr, endStr, tag) ==
    RangeValues(ParseInt(startStr), ParseInt(endStr), tag)

\* The sequence branch once every token went through ParseInt.
SequenceValue(parsed, tag) ==
    IF \E i \in 1..Len(parsed) : ~parsed[i].ok
    THEN ParseResult(<<>>, <<>>, "format")
    ELSE ParseResult(<<RunesToString([i \in 1..Len(parsed) |-> parsed[i].val])>>,
                     tag, "")

\* The loop over the space-separated tokens.
ParseTokens(codePoints, tag) ==
    SequenceValue([i \in 1..Len(codePoints) |-> ParseInt(codePoints[i])], tag)

\* The sequence branch of parseEmojiDataLine.
ParseSequence(codePointsStr, tag) ==
    ParseTokens(Split(codePointsStr, S(<<" ">>)), tag)

\* The choice between the two branches, on strings.Cut(codePointsStr, "..").
ParseCodePoints(range, codePointsStr, tag) ==
    IF range.found THEN ParseRange(range.before, range.after, tag)
    ELSE ParseSequence(codePointsStr, tag)

\* The two trimmed fields.
ParseFields(codePointsStr, tag) ==
    ParseCodePoints(Cut(codePointsStr, S(<<".", ".">>)), codePointsStr, tag)

\* The fields split on ";": fewer than two is an error.
ParseParts(parts) ==
    IF Len(parts) < 2 THEN ParseResult(<<>>, <<>>, "format")
    ELSE ParseFields(TrimSpace(parts[1]), TrimSpace(parts[2]))

\* The line with its comment cut off: nothing for an empty line.
ParseUncommented(line) ==
    IF line = <<>> THEN ParseResult(<<>>, <<>>, "")
    ELSE ParseParts(SplitN(line, S(<<";">>), 3))

\* parseEmojiDataLine(line)
parseEmojiDataLine(line) == ParseUncommented(Cut(line, S(<<"#">>)).before)

-----------------------------------------------------------------------------
(* The emoji set builder *)

\* The tag that marks a modifier in the property table.
EmojiModifierTag == S(<<"E", "m", "o", "j", "i", "_", "M", "o", "d", "i", "f", "i", "e", "r">>)

\* The scan loop of emojiModifiers over the lines of the property table: the
\* values of every line tagged Emoji_Modifier, or the first line's error.
RECURSIVE ScanModifiers(_, _)
ScanModifiersLine(r, rest, modifiers) ==
    IF r.err # "" THEN [err |-> r.err, values |-> <<>>]
    ELSE ScanModifiers(rest, IF r.tag = EmojiModifierTag THEN modifiers \o r.emojis
                             ELSE modifiers)

ScanModifiers(lines, modifiers) ==
    IF lines = <<>> THEN [err |-> "", values |-> modifiers]
    ELSE ScanModifiersLine(parseEmojiDataLine(Head(lines)), Tail(lines), modifiers)

\* A filter that also drops every sequence holding a modifier codepoint.
KeepWithoutModifierCodepoint(lineEmojis, modifiers) ==
    SelectSeq(lineEmojis, LAMBDA e : \A i \in 1..Len(e) : <<e[i]>> \notin modifiers)

\* The values of one parsed line that emojisInFile appends: those the
\* modifier map does not hold.
KeepNonModifiers(lineEmojis, modifiers) ==
    SelectSeq(lineEmojis, LAMBDA e : e \notin modifiers)

\* The scan loop of emojisInFile over the lines of a sequence table.
RECURSIVE ScanEmojis(_, _, _)
ScanEmojisLine(r, rest, modifiers, emojis) ==
    IF r.err # "" THEN [err |-> r.err, values |-> <<>>]
    ELSE ScanEmojis(rest, modifiers, emojis \o KeepNonModifiers(r.emojis, modifiers))

ScanEmojis(lines, modifiers, emojis) ==
    IF lines = <<>> THEN [err |-> "", values |-> emojis]
    ELSE ScanEmojisLine(parseEmojiDataLine(Head(lines)), Tail(lines), modifiers, emojis)

\* The set of the elements of a sequence (the keys of the modifiers map).
Range(s) == {s[i] : i \in 1..Len(s)}

-----------------------------------------------------------------------------
(* The annotation extractor *)

\* The type attribute of a name element.
TTS == S(<<"t", "t", "s">>)

\* The separators of the keyword list in annotationsInFile.
KeywordSeparators == {Chr[" "], Chr["|"]}

\* The loop of annotationsInFile over the decoded <annotation> elements: the
\* entry of the element's cp is created when absent, then its name or its
\* keyword list is overwritten.
RECURSIVE annotationsInFile(_, _)
annotationsInFile(elems, emojiAnnotations) ==
    IF elems = <<>> THEN emojiAnnotations
    ELSE LET a == Head(elems)
             old == IF a.cp \in DOMAIN emojiAnnotations
                    THEN emojiAnnotations[a.cp]
                    ELSE [name |-> <<>>, annotations |-> <<>>]
             new == IF a.type = TTS
                    THEN [old EXCEPT !.name = a.content]
                    ELSE [old EXCEPT !.annotations =
                              FieldsFunc(a.content, KeywordSeparators)]
         IN annotationsInFile(Tail(elems),
                [k \in DOMAIN emojiAnnotations \cup {a.cp} |->
                    IF k = a.cp THEN new ELSE emojiAnnotations[k]])

\* The empty map.
EmptyMap == [k \in {} |-> k]

\* maps.Copy(dst, src): every key of src overwrites dst.
MapsCopy(dst, src) ==
    [k \in DOMAIN dst \cup DOMAIN src |-> IF k \in DOMAIN src THEN src[k] ELSE dst[k]]

\* annotations(cldrData): the two files of the archive opened and parsed, the
\* derived entries copied over the primary ones; an error when a file is
\* missing from the archive or is not XML.
annotations(cldrData) ==
    IF cldrData.ann.status = "missing" THEN [err |-> "cldr", map |-> EmptyMap]
    ELSE IF cldrData.ann.status = "badxml" THEN [err |-> "format", map |-> EmptyMap]
    ELSE IF cldrData.annDerived.status = "missing" THEN [err |-> "cldr", map |-> EmptyMap]
    ELSE IF cldrData.annDerived.status = "badxml" THEN [err |-> "format", map |-> EmptyMap]
    ELSE [err |-> "",
          map |-> MapsCopy(annotationsInFile(cldrData.ann.elems, EmptyMap),
                           annotationsInFile(cldrData.annDerived.elems, EmptyMap))]

\* A function that leaves the presentation selectors in.
KeepSelectors(emoji) == emoji

\* removePresentationSelector(emoji)
removePresentationSelector(emoji) == SelectSeq(emoji, LAMBDA r : r # FE0F)

-----------------------------------------------------------------------------
(* The collation ranker *)

\* The type attribute of the emoji collation.
EmojiType == S(<<"e", "m", "o", "j", "i">>)

\* The first collation of type "emoji": its rule text, "" when there is none.
RECURSIVE EmojiCollation(_)
EmojiCollation(collations) ==
    IF collations = <<>> THEN <<>>
    ELSE IF Head(collations).type = EmojiType THEN Head(collations).cr
    ELSE EmojiCollation(Tail(collations))

\* The delimiters of a "<" rule line.
RuleDelimiters == {Chr[" "], Chr["<"], Chr["="], Chr["'"]}

\* An assignment that leaves a key already in the table at its first rank.
AssignRankKeepFirst(st, key) ==
    [st EXCEPT !.collation = [k \in DOMAIN st.collation \cup {key} |->
                                 IF k \in DOMAIN st.collation THEN st.collation[k]
                                 ELSE st.count],
               !.count = st.count + 1]

\* One key assigned the current count.
AssignRank(st, key) ==
    [st EXCEPT !.collation = [k \in DOMAIN st.collation \cup {key} |->
                                 IF k = key THEN st.count ELSE st.collation[k]],
               !.count = st.count + 1]

\* The keys of one rule line assigned in order.
RECURSIVE AssignAll(_, _)
AssignAll(st, keys) ==
    IF keys = <<>> THEN st ELSE AssignAll(AssignRank(st, Head(keys)), Tail(keys))

\* The keys a rule line assigns: each character of a "<*" line, each
\* selector-stripped token of a "<" line.
StarKeys(line) == [i \in 1..(Len(line) - 2) |-> <<line[i + 2]>>]
TokenKeys(line) ==
    LET tokens == FieldsFunc(Tail(line), RuleDelimiters)
    IN [i \in 1..Len(tokens) |-> removePresentationSelector(tokens[i])]

\* The loop of collationData over the lines of the rule text.
RECURSIVE CollationLines(_, _)
CollationLines(lines, st) ==
    IF lines = <<>> \/ st.err # "" THEN st
    ELSE LET line == Head(lines)
         IN CollationLines(Tail(lines),
              IF line = <<>> \/ HasPrefix(line, S(<<"#">>)) \/ HasPrefix(line, S(<<"&">>))
              THEN st
              ELSE IF HasPrefix(line, S(<<"<", "*">>)) THEN AssignAll(st, StarKeys(line))
              ELSE IF HasPrefix(line, S(<<"<">>)) THEN AssignAll(st, TokenKeys(line))
              ELSE [st EXCEPT !.err = "format"])

\* What collationData returns once the loop over the lines is over.
CollationResult(st) ==
    IF st.err # "" THEN [err |-> st.err, collation |-> EmptyMap]
    ELSE [err |-> "", collation |-> st.collation]

\* The rule text of the emoji collation: an error when it is empty, else the
\* loop over its lines with the count starting at 1.
CollationRules(emojiCollation) ==
    IF emojiCollation = <<>> THEN [err |-> "format", collation |-> EmptyMap]
    ELSE CollationResult(CollationLines(Split(emojiCollation, S(<<"\n">>)),
                             [collation |-> EmptyMap, count |-> 1, err |-> ""]))

\* collationData(cldrData)
collationData(cldrData) ==
    IF cldrData.coll.status = "missing" THEN [err |-> "cldr", collation |-> EmptyMap]
    ELSE IF cldrData.coll.status = "badxml" THEN [err |-> "format", collation |-> EmptyMap]
    ELSE CollationRules(EmojiCollation(cldrData.coll.collations))

\* A lookup that tries the prefixes as they are, selectors included.
RECURSIVE collationOrderUnstripped(_, _)
collationOrderUnstripped(e, collation) ==
    IF e = <<>> THEN -1
    ELSE IF e \in DOMAIN collation THEN collation[e]
    ELSE collationOrderUnstripped(SubSeq(e, 1, Len(e) - 1), collation)

\* A lookup of the whole value only, without the fall back to its prefixes.
collationOrderExact(e, collation) ==
    IF e # <<>> /\ removePresentationSelector(e) \in DOMAIN collation
    THEN collation[removePresentationSelector(e)]
    ELSE -1

\* collationOrder(e, collationData): the rank of the longest prefix of e whose
\* selector-stripped form is a key, -1 when there is none.  e is valid UTF-8,
\* so the last rune's byte width removes the last codepoint.
RECURSIVE collationOrder(_, _)
collationOrder(e, collation) ==
    IF e = <<>> THEN -1
    ELSE IF removePresentationSelector(e) \in DOMAIN collation
    THEN collation[removePresentationSelector(e)]
    ELSE collationOrder(SubSeq(e, 1, Len(e) - 1), collation)

-----------------------------------------------------------------------------
(* The pipeline driver *)

\* A comparison that forgets the lexical tie-break.
CompareRankOnly(e, f, n) == n

\* A comparison that forgets the collation rank.
CompareLexicalOnly(e, f, collation) == StringsCompare(e, f)

\* The comparison function generate passes to slices.SortFunc, on the two
\* ranks.
CompareRanked(e, f, n) == IF n # 0 THEN n ELSE StringsCompare(e, f)

CompareEmoji(e, f, collation) ==
    CompareRanked(e, f, collationOrder(e, collation) - collationOrder(f, collation))

\* s with x inserted before position p.
InsertAt(s, p, x) == SubSeq(s, 1, p - 1) \o <<x>> \o SubSeq(s, p, Len(s))

\* slices.SortFunc(emojis, cmp): every order the unstable sort may leave, the
\* permutations of emojis in which no element compares greater than a later
\* one (one insertion at a time, at any place the comparison allows).
RECURSIVE SortFunc(_, _)
SortFunc(emojis, collation) ==
    IF emojis = <<>> THEN {<<>>}
    ELSE LET x == Head(emojis)
         IN UNION {
              {InsertAt(r, p, x) : p \in {q \in 1..(Len(r) + 1) :
                    /\ \A i \in 1..(q - 1) : CompareEmoji(r[i], x, collation) <= 0
                    /\ \A i \in q..Len(r) : CompareEmoji(x, r[i], collation) <= 0}}
              : r \in SortFunc(Tail(emojis), collation)}

\* A filter with the containment test the wrong way round.
DeleteContaining(annotation) ==
    SelectSeq(annotation.annotations, LAMBDA s : ~Contains(s, annotation.name))

\* slices.DeleteFunc(annotation.annotations, ...): the keywords that are not
\* a substring of the name.
DeleteContained(annotation) ==
    SelectSeq(annotation.annotations, LAMBDA s : ~Contains(annotation.name, s))

\* The line the loop body prints for an emoji with its (filtered) annotation:
\* the keywords follow only when their join is not empty.
PrintedLine(emoji, name, joined) ==
    emoji \o S(<<" ">>) \o name \o
    (IF joined # <<>> THEN S(<<" ">>) \o joined ELSE <<>>)

RenderLine(emoji, name, keywords) ==
    PrintedLine(emoji, name, Join(keywords, S(<<" ">>)))

-----------------------------------------------------------------------------
(* Inputs: what the four URLs serve *)

\* The largest number of lines of the sequence table.
MaxLines == 2

\* The emoji codepoints of the fixtures.
E == [thumb |-> 128077, wave |-> 128075, tone1 |-> 127995, tone2 |-> 127996,
      heart |-> 10084, zwj |-> 8205, fire |-> 128293]

\* emoji-data.txt: with a modifier range, without modifiers, with a bad line.
EmojiDataFiles ==
    { <<S(<<"1", "F", "3", "F", "B", ".", ".", "1", "F", "3", "F", "C", " ", ";", " ", "E", "m", "o", "j", "i", "_", "M", "o", "d", "i", "f", "i", "e", "r", " ", "#", " ", "s", "k", "i", "n">>),
        S(<<"1", "F", "4", "4", "D", " ", ";", " ", "E", "m", "o", "j", "i">>)>>,
      <<S(<<"1", "F", "4", "4", "D", " ", ";", " ", "E", "m", "o", "j", "i">>)>>,
      <<S(<<"1", "F", "3", "F", "B", " ", ";", " ", "E", "m", "o", "j", "i", "_", "M", "o", "d", "i", "f", "i", "e", "r">>),
        S(<<"1", "F", "3", "F", "G", " ", ";", " ", "E", "m", "o", "j", "i">>)>> }

\* The lines emoji-sequences.txt is made of.
SequenceLines ==
    { S(<<"1", "F", "3", "F", "B", ".", ".", "1", "F", "3", "F", "C", " ", ";", " ", "B", "a", "s", "i", "c", "_", "E", "m", "o", "j", "i">>),
      S(<<"1", "F", "4", "4", "D", " ", "1", "F", "3", "F", "B", " ", ";", " ", "R", "G", "I", "_", "E", "m", "o", "j", "i">>),
      S(<<"1", "F", "4", "4", "D", " ", ";", " ", "B", "a", "s", "i", "c", "_", "E", "m", "o", "j", "i", " ", "#", " ", "t", "h", "u", "m", "b">>),
      S(<<"2", "7", "6", "4", " ", "F", "E", "0", "F", " ", ";", " ", "B", "a", "s", "i", "c", "_", "E", "m", "o", "j", "i">>),
      S(<<"1", "F", "4", "4", "B">>) }

\* Every sequence of at most n elements of a set.
RECURSIVE SeqsUpTo(_, _)
SeqsUpTo(set, n) ==
    IF n = 0 THEN {<<>>}
    ELSE LET shorter == SeqsUpTo(set, n - 1)
         IN shorter \cup {Append(s, x) : s \in shorter, x \in set}

\* emoji-sequences.txt
SequenceFiles == SeqsUpTo(SequenceLines, MaxLines)

\* emoji-zwj-sequences.txt: empty, one ZWJ sequence, an unqualified form
\* and a value the sequence table may hold too, or a value that begins with
\* a presentation selector.
ZWJSequenceFiles ==
    { <<>>,
      <<S(<<"F", "E", "0", "F", " ", "1", "F", "4", "4", "D", " ", ";", " ", "x">>)>>,
      <<S(<<"2", "7", "6", "4", " ", "F", "E", "0", "F", " ", "2", "0", "0", "D", " ", "1", "F", "5", "2", "5", " ", ";", " ", "R", "G", "I", "_", "E", "m", "o", "j", "i">>)>>,
      <<S(<<"2", "7", "6", "4", " ", ";", " ", "x">>), S(<<"1", "F", "4", "4", "D", " ", ";", " ", "x">>)>> }

\* One decoded <annotation> element.
Annotation(cp, type, content) == [cp |-> cp, type |-> type, content |-> content]

\* common/annotations/en.xml
AnnotationElems ==
    << Annotation(<<E.thumb>>, <<>>, S(<<"h", "a", "n", "d", " ", "|", " ", "t", "h", "u", "m", "b", " ", "|", " ", "h", "u", "m">>)),
       Annotation(<<E.thumb>>, TTS, S(<<"t", "h", "u", "m", "b">>)),
       Annotation(<<E.heart>>, <<>>, S(<<"l", "o", "v", "e", " ", "|", " ", "r", "e", "d">>)),
       Annotation(<<E.heart>>, TTS, S(<<"r", "e", "d", " ", "h", "e", "a", "r", "t">>)),
       Annotation(<<E.tone1>>, TTS, S(<<"l", "i", "g", "h", "t">>)) >>

\* common/annotationsDerived/en.xml
DerivedElems ==
    << Annotation(<<E.thumb, E.tone1>>, TTS, S(<<"t", "h", "u", "m", "b", ":", " ", "l", "i", "g", "h", "t">>)),
       Annotation(<<E.thumb, E.tone1>>, <<>>, S(<<"h", "a", "n", "d", " ", "|", " ", "l", "i", "g", "h", "t">>)),
       Annotation(<<E.heart, E.zwj, E.fire>>, <<>>, S(<<"f", "i", "r", "e", " ", "|", " ", "h", "e", "a", "r", "t">>)),
       Annotation(<<E.heart, E.zwj, E.fire>>, TTS, S(<<"h", "e", "a", "r", "t", " ", "o", "n", " ", "f", "i", "r", "e">>)) >>

\* A file of the archive: decoded, not XML, or not in the archive.
XMLFile(elems) == [status |-> "ok", elems |-> elems, collations |-> <<>>]
CollationFile(collations) == [status |-> "ok", elems |-> <<>>, collations |-> collations]
BadXML == [status |-> "badxml", elems |-> <<>>, collations |-> <<>>]
MissingFile == [status |-> "missing", elems |-> <<>>, collations |-> <<>>]

\* One decoded <collation> element.
Collation(type, cr) == [type |-> type, cr |-> cr]

\* The rule text of the emoji collation: skipped lines, a "<*" line and a "<"
\* line.
EmojiRules ==
    S(<<"\n", "#", "x", "\n", "&", "x", "\n", "<", "*">>) \o <<E.wave, E.thumb>> \o
    S(<<"\n", "<", " ">>) \o <<E.heart, FE0F>> \o S(<<" ", "<", " ">>) \o
    <<E.heart, FE0F, E.zwj, E.fire>> \o S(<<"\n">>)

\* A rule text with a token that is a presentation selector alone.
SelectorRules ==
    S(<<"<", " ">>) \o <<FE0F>> \o S(<<"\n", "<", "*">>) \o <<E.heart>>

\* A rule text with a line of no known shape.
BadRules == S(<<"<", "*">>) \o <<E.thumb>> \o S(<<"\n", "x", "\n">>)

\* common/collation/root.xml
CollationFiles ==
    { CollationFile(<<Collation(S(<<"s", "t", "a", "n", "d", "a", "r", "d">>), S(<<"&", "x">>)),
                      Collation(EmojiType, EmojiRules)>>),
      CollationFile(<<Collation(S(<<"s", "t", "a", "n", "d", "a", "r", "d">>), S(<<"&", "x">>))>>),
      CollationFile(<<Collation(EmojiType, BadRules)>>) }

\* What the CLDR URL serves: a zip archive of three files, or no zip archive.
Archive(ann, annDerived, coll) ==
    [zip |-> "ok", ann |-> ann, annDerived |-> annDerived, coll |-> coll]
NotAZip ==
    [zip |-> "bad", ann |-> MissingFile, annDerived |-> MissingFile, coll |-> MissingFile]

CLDRArchives ==
    {Archive(XMLFile(AnnotationElems), XMLFile(DerivedElems), c) : c \in CollationFiles}
    \cup
    { Archive(XMLFile(AnnotationElems), XMLFile(DerivedElems),
              CollationFile(<<Collation(EmojiType, SelectorRules)>>)),
      Archive(XMLFile(AnnotationElems), XMLFile(<<>>), CollationFile(<<Collation(EmojiType, EmojiRules)>>)),
      Archive(XMLFile(AnnotationElems), MissingFile, CollationFile(<<Collation(EmojiType, EmojiRules)>>)),
      Archive(BadXML, XMLFile(DerivedElems), CollationFile(<<Collation(EmojiType, EmojiRules)>>)),
      Archive(XMLFile(AnnotationElems), XMLFile(DerivedElems), MissingFile),
      NotAZip }

\* What a GET of a URL gives: a 200 response with a body, a transport error,
\* or a response with another status.
Served(body) == [net |-> "ok", body |-> body]
TransportError(body) == [net |-> "transport", body |-> body]
StatusNotOK(body) == [net |-> "status", body |-> body]

\* Every way a URL with one of these bodies can answer.
Responses(bodies, none) ==
    {Served(b) : b \in bodies} \cup {TransportError(none), StatusNotOK(none)}

\* The inputs of a run: the answer of each of the four URLs.
Inputs ==
    [emojiData : Responses(EmojiDataFiles, <<>>),
     emojiSequences : Responses(SequenceFiles, <<>>),
     emojiZWJSequences : Responses(ZWJSequenceFiles, <<>>),
     cldr : Responses(CLDRArchives, NotAZip)]

-----------------------------------------------------------------------------
(* The run of generate() and main() *)

VARIABLES
    in,             \* what the URLs serve, the same for both runs
    pc,             \* where generate() is
    modifierSet,    \* emojis(): the keys of the modifiers map
    emojiList,      \* the emojis slice
    annotationMap,  \* the annotations map (its entries are shared pointers)
    collationMap,   \* the collation map
    idx,            \* the index of the range loop over emojis
    printed,        \* the lines written to standard output
    printedFor,     \* the emoji each printed line was printed for
    built,          \* the stages of generate() that returned without error
    err,            \* the error generate() returned, "" for nil
    exitCode,       \* the exit status of the process, -1 while it runs
    run,            \* 1 for the first run, 2 for the run repeated on the same inputs
    first,          \* the output and outcome of the first run
    \* the variant with a cache directory (getCached, generate)
    cflag,          \* the flag -c: "" or the configured directory
    cacheDir,       \* generate's cacheDir: "" before it is set, "tmp" or "cfg"
    dirExists,      \* which of the two directories exist
    files,          \* the file of each URL in the cache directory: "absent" or its content
    gets,           \* the number of GETs made for each URL
    cpc,            \* where generate() is
    cur,            \* the URL being fetched or read, an index of URLs
    ret,            \* what the last call of getCached returned
    deferred,       \* the deferred calls of generate(), the last one first
    cerr,           \* the error generate() returned, "" for nil
    cexit,          \* the exit status of the process, -1 while it runs
    \* parseEmojiDataLine called on one line
    parseIn,        \* the line and what it was written from
    parsePc,        \* "call" before the call, "done" after it
    parseOut,       \* what the call returned
    \* collationOrder, collationData or annotationsInFile called once
    callIn,         \* the function called and its arguments
    callPc,         \* "call" before the call, "done" after it
    callOut         \* what the call returned

genVars == <<in, pc, modifierSet, emojiList, annotationMap, collationMap, idx,
             printed, printedFor, built, err, exitCode, run, first>>

cacheVars == <<cflag, cacheDir, dirExists, files, gets, cpc, cur, ret, deferred,
               cerr, cexit>>

parseVars == <<parseIn, parsePc, parseOut>>

callVars == <<callIn, callPc, callOut>>

vars == <<genVars, cacheVars, parseVars, callVars>>

\* No output and no outcome yet.
NoResult == [printed |-> <<>>, err |-> "", exitCode |-> -1]

\* The state of a process that has just started.
Started ==
    /\ pc = "emojiModifiers"
    /\ modifierSet = {}
    /\ emojiList = <<>>
    /\ annotationMap = EmptyMap
    /\ collationMap = EmptyMap
    /\ idx = 1
    /\ printed = <<>>
    /\ printedFor = <<>>
    /\ built = {}
    /\ err = ""
    /\ exitCode = -1

GenInit ==
    /\ in \in Inputs
    /\ Started
    /\ run = 1
    /\ first = NoResult

\* generate() returns the error e (a panic unwinds it instead) and main exits:
\* status 1 after printing the error, status 2 on a panic.
Fail(e) ==
    /\ pc' = "exit"
    /\ err' = e
    /\ exitCode' = IF e = "panic" THEN 2 ELSE 1

\* emojiModifiers(): the property table fetched and scanned.
EmojiModifiersStep ==
    /\ pc = "emojiModifiers"
    /\ \E r \in {ScanModifiers(in.emojiData.body, <<>>)} :
          IF in.emojiData.net # "ok"
          THEN Fail("transport") /\ UNCHANGED <<modifierSet, built>>
          ELSE IF r.err # ""
          THEN Fail(r.err) /\ UNCHANGED <<modifierSet, built>>
          ELSE /\ modifierSet' = Range(r.values)
               /\ built' = built \cup {"modifiers"}
               /\ pc' = "emojiSequences"
               /\ UNCHANGED <<err, exitCode>>
    /\ UNCHANGED <<in, emojiList, annotationMap, collationMap, idx, printed,
                   printedFor, run, first>>
    /\ UNCHANGED <<cacheVars, parseVars, callVars>>

\* emojisInFile(*emojiSequences, modifiers)
EmojiSequencesStep ==
    /\ pc = "emojiSequences"
    /\ \E r \in {ScanEmojis(in.emojiSequences.body, modifierSet, <<>>)} :
          IF in.emojiSequences.net # "ok"
          THEN Fail("transport") /\ UNCHANGED <<emojiList>>
          ELSE IF r.err # ""
          THEN Fail(r.err) /\ UNCHANGED <<emojiList>>
          ELSE /\ emojiList' = r.values
               /\ pc' = "emojiZWJSequences"
               /\ UNCHANGED <<err, exitCode>>
    /\ UNCHANGED <<in, modifierSet, annotationMap, collationMap, idx, printed,
                   printedFor, built, run, first>>
    /\ UNCHANGED <<cacheVars, parseVars, callVars>>

\* emojisInFile(*emojiZWJSequences, modifiers) and the append that ends emojis()
EmojiZWJSequencesStep ==
    /\ pc = "emojiZWJSequences"
    /\ \E r \in {ScanEmojis(in.emojiZWJSequences.body, modifierSet, <<>>)} :
          IF in.emojiZWJSequences.net # "ok"
          THEN Fail("transport") /\ UNCHANGED <<emojiList, built>>
          ELSE IF r.err # ""
          THEN Fail(r.err) /\ UNCHANGED <<emojiList, built>>
          ELSE /\ emojiList' = emojiList \o r.values
               /\ built' = built \cup {"emojis"}
               /\ pc' = "cldr"
               /\ UNCHANGED <<err, exitCode>>
    /\ UNCHANGED <<in, modifierSet, annotationMap, collationMap, idx, printed,
                   printedFor, run, first>>
    /\ UNCHANGED <<cacheVars, parseVars, callVars>>

\* The CLDR archive fetched, read and opened as a zip.
CLDRStep ==
    /\ pc = "cldr"
    /\ IF in.cldr.net # "ok" THEN Fail("transport")
       ELSE IF in.cldr.body.zip # "ok" THEN Fail("cldr")
       ELSE pc' = "annotations" /\ UNCHANGED <<err, exitCode>>
    /\ UNCHANGED <<in, modifierSet, emojiList, annotationMap, collationMap, idx,
                   printed, printedFor, built, run, first>>
    /\ UNCHANGED <<cacheVars, parseVars, callVars>>

\* annotations(cldrData)
AnnotationsStep ==
    /\ pc = "annotations"
    /\ \E r \in {annotations(in.cldr.body)} :
          IF r.err # ""
          THEN Fail(r.err) /\ UNCHANGED <<annotationMap, built>>
          ELSE /\ annotationMap' = r.map
               /\ built' = built \cup {"annotations"}
               /\ pc' = "collationData"
               /\ UNCHANGED <<err, exitCode>>
    /\ UNCHANGED <<in, modifierSet, emojiList, collationMap, idx, printed,
                   printedFor, run, first>>
    /\ UNCHANGED <<cacheVars, parseVars, callVars>>

\* collationData's error kept but not returned before the loop.
CollationDataStepUnchecked ==
    /\ pc = "collationData"
    /\ \E r \in {collationData(in.cldr.body)} :
          /\ collationMap' = r.collation
          /\ err' = r.err
          /\ built' = IF r.err = "" THEN built \cup {"collation"} ELSE built
          /\ pc' = "sort"
    /\ UNCHANGED <<in, modifierSet, emojiList, annotationMap, idx, printed,
                   printedFor, exitCode, run, first>>
    /\ UNCHANGED <<cacheVars, parseVars, callVars>>

\* collationData(cldrData)
CollationDataStep ==
    /\ pc = "collationData"
    /\ \E r \in {collationData(in.cldr.body)} :
          IF r.err # ""
          THEN Fail(r.err) /\ UNCHANGED <<collationMap, built>>
          ELSE /\ collationMap' = r.collation
               /\ built' = built \cup {"collation"}
               /\ pc' = "sort"
               /\ UNCHANGED <<err, exitCode>>
    /\ UNCHANGED <<in, modifierSet, emojiList, annotationMap, idx, printed,
                   printedFor, run, first>>
    /\ UNCHANGED <<cacheVars, parseVars, callVars>>

\* slices.SortFunc(emojis, ...)
SortStep ==
    /\ pc = "sort"
    /\ emojiList' \in SortFunc(emojiList, collationMap)
    /\ pc' = "print"
    /\ UNCHANGED <<in, modifierSet, annotationMap, collationMap, idx, printed,
                   printedFor, built, err, exitCode, run, first>>
    /\ UNCHANGED <<cacheVars, parseVars, callVars>>

\* A loop body that skips an emoji without annotation instead of returning.
PrintStepSkipMissing ==
    /\ pc = "print"
    /\ idx <= Len(emojiList)
    /\ \E emoji \in {emojiList[idx]} :
       \E key \in {removePresentationSelector(emoji)} :
          IF key \notin DOMAIN annotationMap
          THEN UNCHANGED <<annotationMap, printed, printedFor>>
          ELSE \E kept \in {DeleteContained(annotationMap[key])} :
                  /\ annotationMap' = [annotationMap EXCEPT ![key].annotations = kept]
                  /\ printed' = Append(printed,
                                  RenderLine(emoji, annotationMap[key].name, kept))
                  /\ printedFor' = Append(printedFor, emoji)
    /\ idx' = idx + 1
    /\ UNCHANGED <<in, pc, err, exitCode, modifierSet, emojiList, collationMap,
                   built, run, first>>
    /\ UNCHANGED <<cacheVars, parseVars, callVars>>

\* One pass of the loop over the sorted emojis: the annotation looked up, its
\* keyword list filtered in place and the line printed, or the error returned.
PrintStep ==
    /\ pc = "print"
    /\ idx <= Len(emojiList)
    /\ \E emoji \in {emojiList[idx]} :
       \E key \in {removePresentationSelector(emoji)} :
          IF key \notin DOMAIN annotationMap
          THEN /\ Fail("consistency")
               /\ UNCHANGED <<annotationMap, idx, printed, printedFor>>
          ELSE \E kept \in {DeleteContained(annotationMap[key])} :
                  /\ annotationMap' = [annotationMap EXCEPT ![key].annotations = kept]
                  /\ printed' = Append(printed,
                                  RenderLine(emoji, annotationMap[key].name, kept))
                  /\ printedFor' = Append(printedFor, emoji)
                  /\ idx' = idx + 1
                  /\ UNCHANGED <<pc, err, exitCode>>
    /\ UNCHANGED <<in, modifierSet, emojiList, collationMap, built, run, first>>
    /\ UNCHANGED <<cacheVars, parseVars, callVars>>

\* The loop is over: generate() returns the error it holds (nil) and main
\* returns.
ReturnStep ==
    /\ pc = "print"
    /\ idx > Len(emojiList)
    /\ pc' = "exit"
    /\ exitCode' = IF err = "" THEN 0 ELSE 1
    /\ UNCHANGED <<in, modifierSet, emojiList, annotationMap, collationMap, idx,
                   printed, printedFor, built, err, run, first>>
    /\ UNCHANGED <<cacheVars, parseVars, callVars>>

\* The program is run again on what the URLs served the first time.
Rerun ==
    /\ pc = "exit"
    /\ run = 1
    /\ first' = [printed |-> printed, err |-> err, exitCode |-> exitCode]
    /\ run' = 2
    /\ pc' = "emojiModifiers"
    /\ modifierSet' = {}
    /\ emojiList' = <<>>
    /\ annotationMap' = EmptyMap
    /\ collationMap' = EmptyMap
    /\ idx' = 1
    /\ printed' = <<>>
    /\ printedFor' = <<>>
    /\ built' = {}
    /\ err' = ""
    /\ exitCode' = -1
    /\ UNCHANGED in
    /\ UNCHANGED <<cacheVars, parseVars, callVars>>

GenNext ==
    \/ EmojiModifiersStep
    \/ EmojiSequencesStep
    \/ EmojiZWJSequencesStep
    \/ CLDRStep
    \/ AnnotationsStep
    \/ CollationDataStep
    \/ SortStep
    \/ PrintStep
    \/ ReturnStep
    \/ Rerun

\* The variables of the run stay at rest while another part is checked.
GenIdle ==
    /\ in = [emojiData |-> TransportError(<<>>), emojiSequences |-> TransportError(<<>>),
             emojiZWJSequences |-> TransportError(<<>>), cldr |-> TransportError(NotAZip)]
    /\ pc = "idle"
    /\ modifierSet = {}
    /\ emojiList = <<>>
    /\ annotationMap = EmptyMap
    /\ collationMap = EmptyMap
    /\ idx = 1
    /\ printed = <<>>
    /\ printedFor = <<>>
    /\ built = {}
    /\ err = ""
    /\ exitCode = -1
    /\ run = 1
    /\ first = NoResult

-----------------------------------------------------------------------------
(* parseEmojiDataLine on one line *)

\* The longest range of the range lines.
MaxRange == 3

\* The hexadecimal digits, upper and lower case.
UpperDigits == S(<<"0", "1", "2", "3", "4", "5", "6", "7", "8", "9", "A", "B", "C", "D", "E", "F">>)
LowerDigits == S(<<"0", "1", "2", "3", "4", "5", "6", "7", "8", "9", "a", "b", "c", "d", "e", "f">>)

\* The codepoint n written in hexadecimal with the given digits.
RECURSIVE HexText(_, _)
HexText(n, digits) ==
    IF n < 16 THEN <<digits[n + 1]>>
    ELSE HexText(n \div 16, digits) \o <<digits[(n % 16) + 1]>>

\* The first codepoints of the range lines: 0, 1F3FB, D7FF and DFFF at the
\* two ends of the surrogates, 10FFFE below the last codepoint.
RangeStarts == {0, E.tone1, SurrogateMin - 1, SurrogateMax, MaxRune - 1}

\* The tags of the lines.
LineTags == {EmojiModifierTag, S(<<"B", "a", "s", "i", "c", "_", "E", "m", "o", "j", "i">>)}

\* A range line START..END with its tag: spaced and commented, without any
\* space, or with a third field.
RangeLine(start, end, tag, layout, digits) ==
    HexText(start, digits) \o S(<<".", ".">>) \o HexText(end, digits) \o
    (IF layout = "spaced" THEN S(<<" ", ";", " ">>) \o tag \o S(<<" ", "#", " ", "x">>)
     ELSE IF layout = "tight" THEN S(<<";">>) \o tag
     ELSE S(<<"\t", ";", "\t">>) \o tag \o S(<<" ", ";", " ", "x", " ", "#", "y">>))

\* The range lines, each with what it was written from.
RangeInputs ==
    {[kind |-> "range", start |-> s, end |-> s + n - 1, tag |-> tag,
      line |-> RangeLine(s, s + n - 1, tag, layout, digits)] :
        s \in RangeStarts, n \in 1..MaxRange, tag \in LineTags,
        layout \in {"spaced", "tight", "third"}, digits \in {UpperDigits, LowerDigits}}

\* A line of another kind.
OtherLine(kind, line) ==
    [kind |-> kind, start |-> 0, end |-> 0, tag |-> <<>>, line |-> line]

\* Lines with nothing but white space before the comment or the end: the
\* empty line, a comment at the first column, and white space before either.
BlankLines ==
    {<<>>,
     S(<<"#", " ", "x">>),
     S(<<"#">>),
     S(<<" ">>),
     S(<<"\t", " ">>),
     S(<<" ", "#", " ", "x">>),
     S(<<"\t", "#", "x", ";", "y">>)}

\* Lines that are not blank and have a single field: the only ";" of the
\* last two is in the comment.
FewFieldLines ==
    {S(<<"1", "F", "4", "4", "B">>),
     S(<<"1", "F", "4", "4", "B", " ">>),
     S(<<"x">>),
     S(<<"1", "F", "4", "4", "B", " ", "#", " ", ";", " ", "x">>),
     S(<<"1", "F", "3", "F", "B", ".", ".", "1", "F", "3", "F", "C", "#", ";">>)}

\* First fields with a token that is no well-formed hexadecimal codepoint: a
\* sign, an empty token, a value above 10FFFF, a letter that is no digit, an
\* underscore, a prefix, a value beyond 32 bits, an empty field, a range
\* with a bound of one of these kinds.
MalformedFields ==
    {S(<<"-", "1", "F">>),
     S(<<"+", "1", "F">>),
     S(<<"1", "F", "4", "4", "B", " ", " ", "1", "F", "3", "F", "B">>),
     S(<<"1", "1", "0", "0", "0", "0">>),
     S(<<"7", "F", "F", "F", "F", "F", "F", "F">>),
     S(<<"8", "0", "0", "0", "0", "0", "0", "0">>),
     S(<<"1", "F", "4", "4", "B", " ", "1", "G">>),
     S(<<"1", "F", "_", "4">>),
     S(<<"0", "x", "1", "F">>),
     <<>>,
     S(<<"1", "F", "4", "4", "B", " ", "-", "1", "F">>),
     S(<<"-", "1", ".", ".", "1">>),
     S(<<"1", "0", "F", "F", "F", "F", ".", ".", "1", "1", "0", "0", "0", "0">>),
     S(<<"1", "F", "3", "F", "B", ".", ".">>),
     S(<<".", ".", "1", "F", "3", "F", "B">>),
     S(<<"1", "F", "3", "F", "B", ".", ".", "1", "G">>)}

\* The lines of these first fields, spaced or not.
MalformedLines ==
    {f \o S(<<" ", ";", " ">>) \o tag : f \in MalformedFields, tag \in LineTags}
    \cup {f \o S(<<";">>) \o tag \o S(<<"#", "x">>) : f \in MalformedFields, tag \in LineTags}

\* The lines parseEmojiDataLine is called on.
ParseInputs ==
    RangeInputs
    \cup {OtherLine("blank", l) : l \in BlankLines}
    \cup {OtherLine("fewFields", l) : l \in FewFieldLines}
    \cup {OtherLine("malformed", l) : l \in MalformedLines}

ParseInit ==
    /\ parseIn \in ParseInputs
    /\ parsePc = "call"
    /\ parseOut = ParseResult(<<>>, <<>>, "")

ParseIdle ==
    /\ parseIn = [kind |-> "none", start |-> 0, end |-> 0, tag |-> <<>>, line |-> <<>>]
    /\ parsePc = "idle"
    /\ parseOut = ParseResult(<<>>, <<>>, "")

\* The call of parseEmojiDataLine.
ParseCall ==
    /\ parsePc = "call"
    /\ parseOut' = parseEmojiDataLine(parseIn.line)
    /\ parsePc' = "done"
    /\ UNCHANGED parseIn
    /\ UNCHANGED <<genVars, cacheVars, callVars>>

ParseNext == ParseCall

-----------------------------------------------------------------------------
(* collationOrder, collationData and annotationsInFile called once *)

\* The largest number of lines of a rule text.
MaxRuleLines == 3

\* The largest number of <annotation> elements of a file.
MaxElems == 2

\* The lines a rule text is made of: blank, "#" and "&" lines, "<*" lines
\* (three characters; a character with its selector; a character listed
\* before), "<" lines (tokens with selectors; delimiters without spaces; a
\* token that is a selector alone) and a line of no known shape.
RuleLines ==
    { <<>>,
      S(<<"#", "x">>),
      S(<<"&", "x">>),
      S(<<"<", "*">>) \o <<E.wave, E.thumb, E.fire>>,
      S(<<"<", "*">>) \o <<E.heart, FE0F>>,
      S(<<"<", "*">>) \o <<E.thumb>>,
      S(<<"<", " ">>) \o <<E.heart, FE0F>> \o S(<<" ", "<", " ">>) \o
          <<E.heart, FE0F, E.zwj, E.fire>>,
      S(<<"<">>) \o <<E.thumb>> \o S(<<"=">>) \o <<E.thumb, E.tone1>>,
      S(<<"<", " ">>) \o <<FE0F>>,
      S(<<"x">>) }

\* The rule texts: at most MaxRuleLines lines joined with line feeds.
RuleTexts == {Join(ls, S(<<"\n">>)) : ls \in SeqsUpTo(RuleLines, MaxRuleLines)}

\* The rank tables collationData builds from the rule texts.
RankTables ==
    {CollationRules(r).collation : r \in {x \in RuleTexts : CollationRules(x).err = ""}}

\* The emoji values collationOrder is called on.
EmojiValues ==
    { <<>>, <<FE0F>>, <<E.thumb>>, <<E.thumb, E.tone1>>, <<E.thumb, E.tone1, E.tone2>>,
      <<FE0F, E.thumb>>, <<E.heart>>, <<E.heart, FE0F>>, <<E.heart, E.zwj, E.fire>>,
      <<E.heart, FE0F, E.zwj, E.fire>>, <<E.heart, FE0F, E.zwj, E.fire, E.tone1>>,
      <<E.tone2>> }

\* The <annotation> elements a file is made of: keywords of several words,
\* pieces with white space around them, a name, an empty content.
CallElems ==
    { Annotation(<<E.thumb>>, <<>>, S(<<"t", "h", "u", "m", "b", "s", " ", "u", "p", " ", "|", " ", "h", "a", "n", "d">>)),
      Annotation(<<E.thumb>>, S(<<"x">>), S(<<" ", "l", "i", "k", "e", "|", "\t", "y", "e", "s", " ">>)),
      Annotation(<<E.thumb>>, TTS, S(<<"t", "h", "u", "m", "b", "s", " ", "u", "p">>)),
      Annotation(<<E.heart>>, <<>>, S(<<"l", "o", "v", "e">>)),
      Annotation(<<E.heart>>, <<>>, <<>>),
      Annotation(<<E.heart>>, TTS, S(<<"r", "e", "d", " ", "h", "e", "a", "r", "t">>)) }

\* A call and its arguments.
Call(fn, e, collation, rules, elems) ==
    [fn |-> fn, e |-> e, collation |-> collation, rules |-> rules, elems |-> elems]

\* What a call returned: a rank, a table with its error, or a map of entries.
CallResult(rank, table, entries) == [rank |-> rank, table |-> table, entries |-> entries]

NoCallResult == CallResult(0, [err |-> "", collation |-> EmptyMap], EmptyMap)

CallInputs ==
    {Call("collationOrder", e, T, <<>>, <<>>) : e \in EmojiValues, T \in RankTables}
    \cup {Call("collationData", <<>>, EmptyMap, r, <<>>) : r \in RuleTexts}
    \cup {Call(fn, <<>>, EmptyMap, <<>>, elems) :
            fn \in {"annotationsInFile", "annotationData"},
            elems \in SeqsUpTo(CallElems, MaxElems)}

CallInit ==
    /\ callIn \in CallInputs
    /\ callPc = "call"
    /\ callOut = NoCallResult

CallIdle ==
    /\ callIn = Call("none", <<>>, EmptyMap, <<>>, <<>>)
    /\ callPc = "idle"
    /\ callOut = NoCallResult

\* The keyword list of the variant with a cache directory: the content split
\* on "|", each piece trimmed.
SplitTrimmed(content) ==
    [i \in 1..Len(Split(content, S(<<"|">>))) |-> TrimSpace(Split(content, S(<<"|">>))[i])]

\* The loop of that variant's annotationsInFile over the decoded elements,
\* before the entries are rendered to strings.
RECURSIVE annotationData(_, _)
annotationData(elems, emojiAnnotations) ==
    IF elems = <<>> THEN emojiAnnotations
    ELSE annotationData(Tail(elems),
            [k \in DOMAIN emojiAnnotations \cup {Head(elems).cp} |->
                IF k # Head(elems).cp THEN emojiAnnotations[k]
                ELSE IF Head(elems).type = TTS
                THEN [name |-> Head(elems).content,
                      annotations |-> IF k \in DOMAIN emojiAnnotations
                                      THEN emojiAnnotations[k].annotations ELSE <<>>]
                ELSE [name |-> IF k \in DOMAIN emojiAnnotations
                               THEN emojiAnnotations[k].name ELSE <<>>,
                      annotations |-> SplitTrimmed(Head(elems).content)]])

\* A call returns.
Return(out) ==
    /\ callOut' = out
    /\ callPc' = "done"
    /\ UNCHANGED callIn
    /\ UNCHANGED <<genVars, cacheVars, parseVars>>

\* collationOrder(e, collation)
CollationOrderCall ==
    /\ callPc = "call"
    /\ callIn.fn = "collationOrder"
    /\ Return(CallResult(collationOrder(callIn.e, callIn.collation),
                         NoCallResult.table, EmptyMap))

\* The loop of collationData on a rule text.
CollationDataCall ==
    /\ callPc = "call"
    /\ callIn.fn = "collationData"
    /\ Return(CallResult(0, CollationRules(callIn.rules), EmptyMap))

\* The loop of annotationsInFile on the elements of a file.
AnnotationsInFileCall ==
    /\ callPc = "call"
    /\ callIn.fn = "annotationsInFile"
    /\ Return(CallResult(0, NoCallResult.table, annotationsInFile(callIn.elems, EmptyMap)))

\* The same loop in the variant with a cache directory.
AnnotationDataCall ==
    /\ callPc = "call"
    /\ callIn.fn = "annotationData"
    /\ Return(CallResult(0, NoCallResult.table, annotationData(callIn.elems, EmptyMap)))

CallNext ==
    \/ CollationOrderCall
    \/ CollationDataCall
    \/ AnnotationsInFileCall
    \/ AnnotationDataCall

-----------------------------------------------------------------------------
(* The variant with a cache directory: getCached and generate *)

\* The four URLs, in the order generate fetches them.
URLs == <<"emojiData", "emojiSequences", "emojiZWJSequences", "cldr">>

\* What a cached table can hold: lines that parse, a malformed line, or a
\* range line whose end is more than one below its start.
TableContents == {"good", "malformed", "panic"}

\* What the cached CLDR file can hold: a good archive, no zip archive,
\* annotations that are no XML, a rule line of no known shape, or no
\* annotation for an emoji of the set.
ArchiveContents == {"good", "notzip", "badxml", "badcollation", "noannotation"}

\* What the file of the i-th URL can hold.
Contents(i) == IF i = Len(URLs) THEN ArchiveContents ELSE TableContents

\* The files of an empty cache directory.
NoFiles == [i \in 1..Len(URLs) |-> "absent"]

CacheInit ==
    /\ cflag \in {"", "cfg"}
    /\ dirExists \in [{"tmp", "cfg"} -> BOOLEAN]
    /\ ~dirExists["tmp"]
    /\ cflag = "" => ~dirExists["cfg"]
    /\ files \in [1..Len(URLs) -> TableContents \cup ArchiveContents \cup {"absent"}]
    /\ \A i \in 1..Len(URLs) : files[i] \in Contents(i) \cup {"absent"}
    /\ (cflag = "" \/ ~dirExists["cfg"]) => files = NoFiles
    /\ cacheDir = ""
    /\ gets = [i \in 1..Len(URLs) |-> 0]
    /\ cpc = "start"
    /\ cur = 1
    /\ ret = [path |-> <<>>, err |-> ""]
    /\ deferred = <<>>
    /\ cerr = ""
    /\ cexit = -1

CacheIdle ==
    /\ cflag = ""
    /\ dirExists = [d \in {"tmp", "cfg"} |-> FALSE]
    /\ files = NoFiles
    /\ cacheDir = ""
    /\ gets = [i \in 1..Len(URLs) |-> 0]
    /\ cpc = "idle"
    /\ cur = 1
    /\ ret = [path |-> <<>>, err |-> ""]
    /\ deferred = <<>>
    /\ cerr = ""
    /\ cexit = -1

\* A deferred clean-up that runs only when generate() returns nil.
DirsAfterSuccessOnly(e) ==
    IF e = "" /\ "RemoveAll" \in Range(deferred)
    THEN [dirExists EXCEPT ![cacheDir] = FALSE] ELSE dirExists

\* The directories once the deferred calls have run: a deferred
\* os.RemoveAll(cacheDir) removes the directory, whatever generate() returns.
DirsAfterReturn(e) ==
    IF "RemoveAll" \in Range(deferred)
    THEN [dirExists EXCEPT ![cacheDir] = FALSE] ELSE dirExists

\* generate() returns e, or panics: the deferred calls run, then main exits
\* with status 0, with status 1 after printing the error, or the panic ends
\* the process with status 2.
CacheReturn(e) ==
    /\ cpc' = "exit"
    /\ cerr' = e
    /\ cexit' = IF e = "" THEN 0 ELSE IF e = "panic" THEN 2 ELSE 1
    /\ dirExists' = DirsAfterReturn(e)
    /\ files' = IF DirsAfterReturn(e) = dirExists THEN files ELSE NoFiles
    /\ deferred' = <<>>

\* The head of generate(): the configured directory, or a temporary one whose
\* removal is deferred.
CacheDirStep ==
    /\ cpc = "start"
    /\ IF cflag = ""
       THEN \E made \in BOOLEAN :
               IF made
               THEN /\ cacheDir' = "tmp"
                    /\ dirExists' = [dirExists EXCEPT !["tmp"] = TRUE]
                    /\ deferred' = <<"RemoveAll">> \o deferred
                    /\ cpc' = "get"
                    /\ UNCHANGED <<files, cerr, cexit>>
               ELSE CacheReturn("io") /\ UNCHANGED cacheDir
       ELSE /\ cacheDir' = cflag
            /\ cpc' = "get"
            /\ UNCHANGED <<dirExists, files, deferred, cerr, cexit>>
    /\ UNCHANGED <<cflag, gets, cur, ret>>
    /\ UNCHANGED <<genVars, parseVars, callVars>>

\* What os.Stat can answer for a file: found or not, or an error of another
\* kind (no permission).
StatOutcomes(file) ==
    IF file = "absent" THEN {"notExist", "otherError"} ELSE {"found", "otherError"}

\* A test that never takes the file for cached.
NeverCached(stat) == FALSE

\* The test of getCached: everything but fs.ErrNotExist is a cache hit.
CacheHit(stat) == stat # "notExist"

\* How a fetch can go once the file is not cached: the GET fails, has a
\* status other than 200, os.Create fails, io.Copy fails, f.Close fails, or
\* all succeed.  A file cannot be created in a directory that does not exist.
FetchOutcomes ==
    {"transport", "status", "create"} \cup
    (IF dirExists[cacheDir] THEN {"copy", "close", "ok"} ELSE {})

\* cacheDir + "/" + path.Base(url) for the i-th URL.
CachePath(i) == <<cacheDir, URLs[i]>>

\* What getCached returns; the empty path is the empty sequence.
Returned(path, e) == [path |-> path, err |-> e]

\* getCached(url, cacheDir) for the current URL.
GetCachedStep ==
    /\ cpc = "get"
    /\ \E stat \in StatOutcomes(files[cur]) :
          IF CacheHit(stat)
          THEN /\ ret' = Returned(CachePath(cur), "")
               /\ UNCHANGED <<files, gets>>
          ELSE /\ gets' = [gets EXCEPT ![cur] = @ + 1]
               /\ \E o \in FetchOutcomes, body \in Contents(cur) :
                     \/ /\ o \in {"transport", "status"}
                        /\ ret' = Returned(<<>>, "transport")
                        /\ UNCHANGED files
                     \/ /\ o = "create"
                        /\ ret' = Returned(<<>>, "io")
                        /\ UNCHANGED files
                     \/ /\ o = "copy"
                        /\ ret' = Returned(<<>>, "io")
                        /\ files' = [files EXCEPT ![cur] = "absent"]
                     \/ /\ o = "close"
                        /\ ret' = Returned(CachePath(cur), "io")
                        /\ files' = [files EXCEPT ![cur] = body]
                     \/ /\ o = "ok"
                        /\ ret' = Returned(CachePath(cur), "")
                        /\ files' = [files EXCEPT ![cur] = body]
    /\ cpc' = "got"
    /\ UNCHANGED <<cflag, cacheDir, dirExists, cur, deferred, cerr, cexit>>
    /\ UNCHANGED <<genVars, parseVars, callVars>>

\* The caller of getCached returns its error, or goes on to open the file.
GotStep ==
    /\ cpc = "got"
    /\ IF ret.err # ""
       THEN CacheReturn(ret.err)
       ELSE /\ cpc' = IF cur = Len(URLs) THEN "zip" ELSE "read"
            /\ UNCHANGED <<dirExists, files, deferred, cerr, cexit>>
    /\ UNCHANGED <<cflag, cacheDir, gets, cur, ret>>
    /\ UNCHANGED <<genVars, parseVars, callVars>>

\* emojiModifiers and emojisInFile after getCached: the file opened and
\* scanned line by line.
ReadTableStep ==
    /\ cpc = "read"
    /\ IF files[cur] = "absent" THEN CacheReturn("io") /\ UNCHANGED cur
       ELSE IF files[cur] = "malformed" THEN CacheReturn("format") /\ UNCHANGED cur
       ELSE IF files[cur] = "panic" THEN CacheReturn("panic") /\ UNCHANGED cur
       ELSE /\ cur' = cur + 1
            /\ cpc' = "get"
            /\ UNCHANGED <<dirExists, files, deferred, cerr, cexit>>
    /\ UNCHANGED <<cflag, cacheDir, gets, ret>>
    /\ UNCHANGED <<genVars, parseVars, callVars>>

\* zip.OpenReader(cldrFile), its Close deferred.
OpenArchiveStep ==
    /\ cpc = "zip"
    /\ IF files[cur] = "absent" THEN CacheReturn("io")
       ELSE IF files[cur] = "notzip" THEN CacheReturn("archive")
       ELSE /\ deferred' = <<"Close">> \o deferred
            /\ cpc' = "annotations"
            /\ UNCHANGED <<dirExists, files, cerr, cexit>>
    /\ UNCHANGED <<cflag, cacheDir, gets, cur, ret>>
    /\ UNCHANGED <<genVars, parseVars, callVars>>

\* annotations(&cldrData.Reader)
ArchiveAnnotationsStep ==
    /\ cpc = "annotations"
    /\ IF files[cur] = "badxml" THEN CacheReturn("format")
       ELSE /\ cpc' = "collationData"
            /\ UNCHANGED <<dirExists, files, deferred, cerr, cexit>>
    /\ UNCHANGED <<cflag, cacheDir, gets, cur, ret>>
    /\ UNCHANGED <<genVars, parseVars, callVars>>

\* collationData(&cldrData.Reader)
ArchiveCollationStep ==
    /\ cpc = "collationData"
    /\ IF files[cur] = "badcollation" THEN CacheReturn("format")
       ELSE /\ cpc' = "print"
            /\ UNCHANGED <<dirExists, files, deferred, cerr, cexit>>
    /\ UNCHANGED <<cflag, cacheDir, gets, cur, ret>>
    /\ UNCHANGED <<genVars, parseVars, callVars>>

\* The sort and the print loop: the error of an emoji without annotation, or
\* the return of nil.
ArchivePrintStep ==
    /\ cpc = "print"
    /\ IF files[cur] = "noannotation" THEN CacheReturn("consistency")
       ELSE CacheReturn("")
    /\ UNCHANGED <<cflag, cacheDir, gets, cur, ret>>
    /\ UNCHANGED <<genVars, parseVars, callVars>>

CacheNext ==
    \/ CacheDirStep
    \/ GetCachedStep
    \/ GotStep
    \/ ReadTableStep
    \/ OpenArchiveStep
    \/ ArchiveAnnotationsStep
    \/ ArchiveCollationStep
    \/ ArchivePrintStep

-----------------------------------------------------------------------------
(* The specifications *)

\* A run of generate() and its repetition.
Init == GenInit /\ CacheIdle /\ ParseIdle /\ CallIdle

Next == GenNext

Spec == Init /\ [][Next]_vars

\* A run of the variant with a cache directory.
InitCache == CacheInit /\ GenIdle /\ ParseIdle /\ CallIdle

NextCache == CacheNext

SpecCache == InitCache /\ [][NextCache]_vars

\* One call of parseEmojiDataLine.
InitParse == ParseInit /\ GenIdle /\ CacheIdle /\ CallIdle

NextParse == ParseNext

SpecParse == InitParse /\ [][NextParse]_vars

\* One call of collationOrder, collationData or annotationsInFile.
InitCall == CallInit /\ GenIdle /\ CacheIdle /\ ParseIdle

NextCall == CallNext

SpecCall == InitCall /\ [][NextCall]_vars

-----------------------------------------------------------------------------
(* Properties of the run *)

\* Every value the lines of a table parse to, in file order.
ParsedValues(lines) ==
    Flatten([i \in 1..Len(lines) |-> parseEmojiDataLine(lines[i]).emojis])

\* The values of the lines the property table tags Emoji_Modifier.
TaggedModifiers(lines) ==
    UNION {Range(parseEmojiDataLine(lines[i]).emojis) :
             i \in {j \in 1..Len(lines) :
                      parseEmojiDataLine(lines[j]).tag = EmojiModifierTag}}

\* The values of both sequence tables, sequence table first.
AllSequenceValues ==
    ParsedValues(in.emojiSequences.body) \o ParsedValues(in.emojiZWJSequences.body)

\* C1: the set emojis() builds is the values of the sequence table followed
\* by those of the ZWJ table, less exactly the members of the modifier set:
\* no modifier value is an element, every other value is kept in place.
C1_EmojiSetExcludesOnlyModifiers ==
    "emojis" \in built =>
        /\ \A m \in TaggedModifiers(in.emojiData.body) : m \notin Range(emojiList)
        /\ \A v \in Range(AllSequenceValues) :
              v \notin TaggedModifiers(in.emojiData.body) => v \in Range(emojiList)
        /\ pc \in {"cldr", "annotations", "collationData", "sort"} =>
              emojiList = SelectSeq(AllSequenceValues,
                            LAMBDA v : v \notin TaggedModifiers(in.emojiData.body))

\* C1 witness: the modifier 1F3FB stands alone in the sequence table and is
\* left out, while 1F44D 1F3FB is in the set.
C1_Witness ==
    /\ "emojis" \in built
    /\ pc = "cldr"
    /\ <<E.tone1>> \in TaggedModifiers(in.emojiData.body)
    /\ <<E.tone1>> \in Range(AllSequenceValues)
    /\ <<E.tone1>> \notin Range(emojiList)
    /\ <<E.thumb, E.tone1>> \in Range(emojiList)

\* a <= b in the lexical order of the codepoint sequences.
RECURSIVE CodepointLessEq(_, _)
CodepointLessEq(a, b) ==
    IF a = <<>> THEN TRUE
    ELSE IF b = <<>> THEN FALSE
    ELSE IF Head(a) # Head(b) THEN Head(a) < Head(b)
    ELSE CodepointLessEq(Tail(a), Tail(b))

\* a is printed before b in sort order.
InSortOrder(a, b) ==
    \/ collationOrder(a, collationMap) < collationOrder(b, collationMap)
    \/ /\ collationOrder(a, collationMap) = collationOrder(b, collationMap)
       /\ CodepointLessEq(a, b)

\* C2: any two lines printed one after the other are in sort order: the rank
\* of the first is lower, or the ranks are equal and the first emoji is
\* lexically less than or equal to the second by codepoints.
C2_PrintedInSortOrder ==
    \A i \in 1..(Len(printedFor) - 1) : InSortOrder(printedFor[i], printedFor[i + 1])

\* C2 witness: three lines are out, two neighbours differ in rank, two
\* others tie in rank, and the sort has changed the order of the set.
C2_Witness ==
    /\ Len(printedFor) >= 3
    /\ \E i \in 1..(Len(printedFor) - 1) :
          collationOrder(printedFor[i], collationMap)
            < collationOrder(printedFor[i + 1], collationMap)
    /\ \E i \in 1..(Len(printedFor) - 1) :
          /\ collationOrder(printedFor[i], collationMap)
               = collationOrder(printedFor[i + 1], collationMap)
          /\ printedFor[i] # printedFor[i + 1]
    /\ emojiList # SelectSeq(AllSequenceValues,
                       LAMBDA v : v \notin TaggedModifiers(in.emojiData.body))

\* C3 as stated: a run that ends with any fatal error printed no line.
C3_NoOutputOnAnyError ==
    (pc = "exit" /\ err # "") => printed = <<>>

\* C3 as amended: a run that ends with a transport, format or archive error
\* (or a panic) printed no line; only the missing-annotation error of the
\* print loop can follow printed lines.
C3_NoOutputUnlessConsistencyError ==
    (err # "" /\ err # "consistency") => printed = <<>>

\* C3 witness: the last fallible stage before the loop, collationData, fails
\* and nothing was printed.
C3_Witness ==
    /\ pc = "exit"
    /\ err = "format"
    /\ "annotations" \in built
    /\ emojiList # <<>>
    /\ printed = <<>>

\* The positions of the emojis whose selector-stripped key has no annotation.
MissingAnnotation ==
    {i \in 1..Len(emojiList) :
        removePresentationSelector(emojiList[i]) \notin DOMAIN annotationMap}

\* The least element of a non-empty set of numbers.
Least(set) == CHOOSE i \in set : \A j \in set : i <= j

\* C4 as stated: once the set and the merged annotation map are built and an
\* emoji of the set has no annotation, the run ends with the consistency
\* error and a non-zero exit status.
C4_MissingAnnotationAlwaysConsistencyError ==
    (pc = "exit" /\ {"emojis", "annotations"} \subseteq built /\ MissingAnnotation # {})
        => (err = "consistency" /\ exitCode # 0)

\* C4 as amended: when the collation table is built as well, an emoji without
\* annotation ends the run with the consistency error and a non-zero exit
\* status, after the lines of exactly the emojis sorted before the first such
\* emoji: no line for it nor for any later one.
C4_MissingAnnotationEndsSortedRun ==
    (pc = "exit" /\ {"emojis", "annotations", "collation"} \subseteq built
       /\ MissingAnnotation # {})
        => /\ err = "consistency"
           /\ exitCode # 0
           /\ printedFor = SubSeq(emojiList, 1, Least(MissingAnnotation) - 1)
           /\ Len(printed) = Least(MissingAnnotation) - 1

\* C4 witness: the run failed on an emoji without annotation after printing
\* the line of an earlier one.
C4_Witness ==
    /\ pc = "exit"
    /\ err = "consistency"
    /\ MissingAnnotation # {}
    /\ Len(printed) >= 1
    /\ Len(printed) < Len(emojiList)

\* C5: the run repeated on the same inputs prints the same lines and ends
\* with the same outcome as the first.
C5_RepeatedRunSameOutput ==
    (run = 2 /\ pc = "exit")
        => /\ printed = first.printed
           /\ err = first.err
           /\ exitCode = first.exitCode

\* C5 witness: the repeated run is over, it printed lines, and the set holds
\* one emoji value twice.
C5_Witness ==
    /\ run = 2
    /\ pc = "exit"
    /\ exitCode = 0
    /\ Len(printed) >= 3
    /\ \E i, j \in 1..Len(emojiList) : i # j /\ emojiList[i] = emojiList[j]

\* k occurs in name as a substring.
IsSubstring(k, name) ==
    \E i \in 0..(Len(name) - Len(k)) : SubSeq(name, i + 1, i + Len(k)) = k

\* The keywords of an entry that are no substring of its name, in order.
RemainingKeywords(entry) ==
    SelectSeq(entry.annotations, LAMBDA k : ~IsSubstring(k, entry.name))

\* The name, then each remaining keyword after one space.
ExpectedAnnotation(entry) ==
    entry.name \o
    Flatten([j \in 1..Len(RemainingKeywords(entry)) |->
                <<Chr[" "]>> \o RemainingKeywords(entry)[j]])

\* The entry of an emoji in the merged map as the extractor built it.
EntryOf(emoji) == annotations(in.cldr.body).map[removePresentationSelector(emoji)]

\* C6: every printed line is the emoji, one space, the name, then each keyword
\* of the entry that is no substring of the name, in order, each after one
\* space; nothing follows the name when no keyword remains.
C6_RenderedAnnotation ==
    \A i \in 1..Len(printed) :
        /\ printed[i] = printedFor[i] \o <<Chr[" "]>> \o ExpectedAnnotation(EntryOf(printedFor[i]))
        /\ RemainingKeywords(EntryOf(printedFor[i])) = <<>> =>
              printed[i] = printedFor[i] \o <<Chr[" "]>> \o EntryOf(printedFor[i]).name

\* C6 witness: one printed line kept a keyword and dropped another, and
\* another printed line lost all its keywords.
C6_Witness ==
    /\ \E i \in 1..Len(printed) :
          /\ RemainingKeywords(EntryOf(printedFor[i])) # <<>>
          /\ RemainingKeywords(EntryOf(printedFor[i])) # EntryOf(printedFor[i]).annotations
    /\ \E i \in 1..Len(printed) :
          /\ EntryOf(printedFor[i]).annotations # <<>>
          /\ RemainingKeywords(EntryOf(printedFor[i])) = <<>>

-----------------------------------------------------------------------------
(* Properties of the cache directory *)

\* C7: a call of getCached for a URL whose file already exists in the cache
\* directory returns the path of that file with no error, performs no GET,
\* and leaves every file and directory as it was, whatever the file holds.
C7_CachedFileReturnedUntouched ==
    [][(cpc = "get" /\ files[cur] # "absent") =>
          /\ ret' = Returned(CachePath(cur), "")
          /\ gets' = gets
          /\ files' = files
          /\ dirExists' = dirExists]_vars

\* getCached has returned the path of a cached file that holds a malformed
\* table, without any GET.
C7_Witness ==
    /\ cpc = "got"
    /\ files[cur] = "malformed"
    /\ gets[cur] = 0
    /\ ret = Returned(CachePath(cur), "")

\* C8: a call of getCached that returns an error for a URL whose file did not
\* exist before the call leaves no file at the path of that URL.
C8_ErrorLeavesNoFile ==
    [][(cpc = "get" /\ files[cur] = "absent" /\ ret'.err # "") =>
          files'[cur] = "absent"]_vars

\* C9: without a configured cache directory the temporary directory does not
\* exist once the process exits, whatever generate() returned; a configured
\* cache directory is never removed.
C9_TempDirRemovedConfiguredKept ==
    /\ []((cpc = "exit" /\ cflag = "") => ~dirExists["tmp"])
    /\ [][cflag # "" => dirExists'[cflag] = dirExists[cflag]]_vars

\* The process exits with status 1 on a format error, after the temporary
\* directory was created and files were fetched into it, and the directory is
\* gone.
C9_Witness ==
    /\ cpc = "exit"
    /\ cflag = ""
    /\ cacheDir = "tmp"
    /\ cerr = "format"
    /\ cexit = 1
    /\ gets[1] = 1
    /\ ~dirExists["tmp"]

-----------------------------------------------------------------------------
(* Properties of parseEmojiDataLine *)

\* The line is a range START..END of codepoints with START <= END.
WellFormedRange ==
    /\ parsePc = "done"
    /\ parseIn.kind = "range"
    /\ 0 <= parseIn.start
    /\ parseIn.start <= parseIn.end
    /\ parseIn.end <= MaxRune

\* The codepoint is a surrogate, which no string holds.
IsSurrogate(c) == c >= SurrogateMin /\ c <= SurrogateMax

\* C10 as stated: a range line START..END of codepoints with START <= END
\* parses without error to END-START+1 values, the k-th being the single
\* codepoint START+k-1, with the trimmed second field as the tag.
C10_RangeYieldsEveryCodepoint ==
    WellFormedRange =>
        /\ parseOut.err = ""
        /\ Len(parseOut.emojis) = parseIn.end - parseIn.start + 1
        /\ \A k \in 1..Len(parseOut.emojis) :
              parseOut.emojis[k] = <<parseIn.start + k - 1>>
        /\ parseOut.tag = parseIn.tag

\* C10: a range line START..END of codepoints with START <= END parses
\* without error to END-START+1 values with the trimmed second field as the
\* tag; the k-th value is the single codepoint START+k-1, or the single
\* codepoint U+FFFD when START+k-1 is a surrogate.
C10_RangeYieldsEveryScalarValue ==
    WellFormedRange =>
        /\ parseOut.err = ""
        /\ Len(parseOut.emojis) = parseIn.end - parseIn.start + 1
        /\ \A k \in 1..Len(parseOut.emojis) :
              parseOut.emojis[k] =
                  IF IsSurrogate(parseIn.start + k - 1) THEN <<RuneError>>
                  ELSE <<parseIn.start + k - 1>>
        /\ parseOut.tag = parseIn.tag

\* C11: a line that is blank once its comment is cut off, white space before
\* the comment or alone on the line included, parses to no emoji, an empty
\* tag and no error.
C11_BlankLineYieldsNothing ==
    (parsePc = "done" /\ parseIn.kind = "blank") =>
        parseOut = ParseResult(<<>>, <<>>, "")

\* C12: a line that is not blank and has fewer than two fields, or whose
\* first field holds a token that is no well-formed hexadecimal codepoint,
\* parses to an error and no emoji.
C12_MalformedLineIsAnError ==
    (parsePc = "done" /\ parseIn.kind \in {"fewFields", "malformed"}) =>
        (parseOut.err # "" /\ parseOut.emojis = <<>>)

\* The range 1F3FB..1F3FC has been parsed to two values.
C10_Witness ==
    /\ WellFormedRange
    /\ parseIn.start = E.tone1
    /\ parseIn.end = E.tone1 + 1
    /\ parseOut.err = ""
    /\ Len(parseOut.emojis) = 2

-----------------------------------------------------------------------------
(* Properties of collationOrder *)

\* collationOrder has returned.
OrderDone == callPc = "done" /\ callIn.fn = "collationOrder"

\* s without its presentation selectors.
Stripped(s) == SelectSeq(s, LAMBDA r : r # FE0F)

\* The lengths of the non-empty prefixes of e whose selector-stripped form is
\* a key of the table.
KeyedPrefixes(e, T) == {n \in 1..Len(e) : Stripped(SubSeq(e, 1, n)) \in DOMAIN T}

\* The greatest element of a non-empty set of numbers.
Greatest(set) == CHOOSE n \in set : \A m \in set : m <= n

\* C13: collationOrder(e, T) is the rank T stores for the selector-stripped
\* form of the longest non-empty prefix of e that has its stripped form in T,
\* and -1 exactly when no non-empty prefix has; a call made can always return.
C13_RankOfLongestKeyedPrefix ==
    /\ (callPc = "call" /\ callIn.fn = "collationOrder") => ENABLED CollationOrderCall
    /\ OrderDone =>
          /\ KeyedPrefixes(callIn.e, callIn.collation) # {} =>
                callOut.rank =
                    callIn.collation[Stripped(SubSeq(callIn.e, 1,
                        Greatest(KeyedPrefixes(callIn.e, callIn.collation))))]
          /\ (callOut.rank = -1) <=> (KeyedPrefixes(callIn.e, callIn.collation) = {})

\* The call on a value of five codepoints with a selector returned the rank
\* of its four-codepoint prefix, whose stripped form is a key while shorter
\* prefixes are keys as well.
C13_Witness ==
    /\ OrderDone
    /\ callIn.e = <<E.heart, FE0F, E.zwj, E.fire, E.tone1>>
    /\ KeyedPrefixes(callIn.e, callIn.collation) = {1, 2, 4}
    /\ callOut.rank = callIn.collation[<<E.heart, E.zwj, E.fire>>]
    /\ callOut.rank # callIn.collation[<<E.heart>>]

\* The exact selector-stripped form of e is no key of the table while its
\* first codepoint is.
OnlyPrefixKeyed(e, T) ==
    /\ Stripped(e) # <<>>
    /\ Stripped(e) \notin DOMAIN T
    /\ <<Head(Stripped(e))>> \in DOMAIN T

\* C14 as stated: for an emoji whose exact form is absent from the table and
\* whose first codepoint is a key, collationOrder returns the rank of that
\* single codepoint.
C14_RankOfFirstCodepoint ==
    (OrderDone /\ OnlyPrefixKeyed(callIn.e, callIn.collation)) =>
        callOut.rank = callIn.collation[<<Head(Stripped(callIn.e))>>]

\* C14: for an emoji whose exact form is absent from the table and whose
\* first codepoint is a key, collationOrder never returns -1; it returns the
\* rank of the longest prefix whose stripped form is a key, which is the rank
\* of the first codepoint when no longer prefix has its stripped form in the
\* table.
C14_RankOfFirstCodepointUnlessLongerPrefix ==
    (OrderDone /\ OnlyPrefixKeyed(callIn.e, callIn.collation)) =>
        /\ callOut.rank # -1
        /\ callOut.rank \in {callIn.collation[Stripped(SubSeq(callIn.e, 1, n))] :
                               n \in KeyedPrefixes(callIn.e, callIn.collation)}
        /\ (\A n \in KeyedPrefixes(callIn.e, callIn.collation) :
                Len(Stripped(SubSeq(callIn.e, 1, n))) <= 1)
             => callOut.rank = callIn.collation[<<Head(Stripped(callIn.e))>>]
        /\ (\E n \in KeyedPrefixes(callIn.e, callIn.collation) :
                Len(Stripped(SubSeq(callIn.e, 1, n))) > 1)
             => callOut.rank =
                    callIn.collation[Stripped(SubSeq(callIn.e, 1,
                        Greatest(KeyedPrefixes(callIn.e, callIn.collation))))]

\* The call on a value of three codepoints, of which only the first is a
\* key, returned the rank of the first.
C14_Witness ==
    /\ OrderDone
    /\ callIn.e = <<E.thumb, E.tone1, E.tone2>>
    /\ OnlyPrefixKeyed(callIn.e, callIn.collation)
    /\ <<E.thumb, E.tone1>> \notin DOMAIN callIn.collation
    /\ callOut.rank = callIn.collation[<<E.thumb>>]

-----------------------------------------------------------------------------
(* Properties of the presentation selector *)

\* The rendered annotation of the i-th printed line: what follows the emoji
\* and one space.
AnnotationText(i) == SubSeq(printed[i], Len(printedFor[i]) + 2, Len(printed[i]))

\* Two printed lines whose emojis differ only in presentation selectors carry
\* the same rendered annotation.
SameAnnotationText ==
    \A i, j \in 1..Len(printed) :
        Stripped(printedFor[i]) = Stripped(printedFor[j])
            => AnnotationText(i) = AnnotationText(j)

\* C15 as stated: every emoji of the set has the rank of its selector-free
\* form in the table built, and two printed emojis that differ only in
\* presentation selectors carry the same rendered annotation.
C15_SelectorVariantsResolveAlike ==
    /\ "collation" \in built =>
          \A i \in 1..Len(emojiList) :
              collationOrder(emojiList[i], collationMap)
                = collationOrder(Stripped(emojiList[i]), collationMap)
    /\ SameAnnotationText

\* The rank of e and the rank of its selector-free form in T are equal,
\* unless the empty string is a key of T, e begins with a presentation
\* selector and the selector-free form has no rank: then e has the rank of
\* the empty key.
RankUpToEmptyKey(e, T) ==
    IF /\ <<>> \in DOMAIN T
       /\ e # <<>>
       /\ Head(e) = FE0F
       /\ collationOrder(Stripped(e), T) = -1
    THEN collationOrder(e, T) = T[<<>>]
    ELSE collationOrder(e, T) = collationOrder(Stripped(e), T)

\* C15: every emoji of the set has the rank of its selector-free form in the
\* table built when the empty string is no key of the table (with the empty
\* key, an emoji that begins with a selector has the rank of the empty key
\* where its selector-free form has none), and two printed emojis that differ
\* only in presentation selectors carry the same rendered annotation.
C15_SelectorVariantsResolveAlikeWithoutEmptyKey ==
    /\ "collation" \in built =>
          \A i \in 1..Len(emojiList) :
              /\ RankUpToEmptyKey(emojiList[i], collationMap)
              /\ <<>> \notin DOMAIN collationMap =>
                    collationOrder(emojiList[i], collationMap)
                      = collationOrder(Stripped(emojiList[i]), collationMap)
    /\ SameAnnotationText

\* 2764 FE0F and 2764 are both printed, with one rank and one annotation
\* text.
C15_Witness ==
    /\ "collation" \in built
    /\ \E i, j \in 1..Len(printed) :
          /\ printedFor[i] = <<E.heart, FE0F>>
          /\ printedFor[j] = <<E.heart>>
          /\ AnnotationText(i) = AnnotationText(j)
          /\ AnnotationText(i) # <<>>
          /\ collationOrder(printedFor[i], collationMap) = collationOrder(printedFor[j], collationMap)
          /\ collationOrder(printedFor[i], collationMap) > 0

\* The rank of a selector-free form on every call of collationOrder, tables
\* with an empty key included.
SelectorFreeRankOnCalls == OrderDone => RankUpToEmptyKey(callIn.e, callIn.collation)

-----------------------------------------------------------------------------
(* Properties of collationData *)

\* collationData has returned a table without error.
TableBuilt ==
    /\ callPc = "done"
    /\ callIn.fn = "collationData"
    /\ callOut.table.err = ""

\* The keys one line of the rule text assigns, in order: none for a blank,
\* "#" or "&" line, the characters after "<*", the selector-free tokens
\* after "<".
LineKeys(line) ==
    IF line = <<>> \/ line[1] \in {Chr["#"], Chr["&"]} THEN <<>>
    ELSE IF Len(line) >= 2 /\ line[2] = Chr["*"]
    THEN [i \in 1..(Len(line) - 2) |-> <<line[i + 2]>>]
    ELSE [i \in 1..Len(FieldsFunc(Tail(line), RuleDelimiters)) |->
             Stripped(FieldsFunc(Tail(line), RuleDelimiters)[i])]

\* The keys assigned over the whole rule text, in file order.
AssignedKeys(rules) ==
    Flatten([i \in 1..Len(Split(rules, <<Chr["\n"]>>)) |->
                LineKeys(Split(rules, <<Chr["\n"]>>)[i])])

\* The table of a sequence of assigned keys when the k-th assignment gives
\* rank k: each key has the rank of its last assignment.
RanksInOrder(keys, T) ==
    /\ DOMAIN T = Range(keys)
    /\ \A k \in DOMAIN T : T[k] = Greatest({i \in 1..Len(keys) : keys[i] = k})
    /\ \A k1, k2 \in DOMAIN T : k1 # k2 => T[k1] # T[k2]

\* C16: the table collationData builds gives the k-th key assigned over the
\* rule text rank k, skipped lines taking no rank and the characters of a
\* "<*" line consecutive ranks; a key assigned again keeps its later rank,
\* and distinct keys have distinct ranks.
C16_RanksCountAssignedKeys ==
    TableBuilt => RanksInOrder(AssignedKeys(callIn.rules), callOut.table.collation)

\* After a "#" line and a "<*" line that takes rank 1, a "<*" line of three
\* characters got the ranks 2, 3 and 4, the second of them a key assigned
\* before.
C16_Witness ==
    /\ TableBuilt
    /\ callIn.rules = S(<<"#", "x", "\n", "<", "*">>) \o <<E.thumb>> \o
                      S(<<"\n", "<", "*">>) \o <<E.wave, E.thumb, E.fire>>
    /\ callOut.table.collation =
          [k \in {<<E.wave>>, <<E.thumb>>, <<E.fire>>} |->
              IF k = <<E.wave>> THEN 2 ELSE IF k = <<E.thumb>> THEN 3 ELSE 4]

\* C17: no key of the table collationData builds holds a presentation
\* selector, whether it comes from a "<*" line or from a "<" line.
C17_NoKeyHoldsSelector ==
    TableBuilt => \A k \in DOMAIN callOut.table.collation : FE0F \notin Range(k)

\* The keys that come from the tokens of "<" lines hold no presentation
\* selector.
TokenKeysHoldNoSelector ==
    TableBuilt =>
        \A k \in DOMAIN callOut.table.collation :
            FE0F \in Range(k) =>
                \E i \in 1..Len(Split(callIn.rules, <<Chr["\n"]>>)) :
                    /\ HasPrefix(Split(callIn.rules, <<Chr["\n"]>>)[i], S(<<"<", "*">>))
                    /\ k = <<FE0F>>

-----------------------------------------------------------------------------
(* Properties of annotationsInFile *)

\* The positions of the elements of cp that are no name.
KeywordElems(elems, cp) ==
    {i \in 1..Len(elems) : elems[i].cp = cp /\ elems[i].type # TTS}

\* The content split on "|" only, each piece trimmed of white space.
PipePieces(content) ==
    [i \in 1..Len(Split(content, <<Chr["|"]>>)) |->
        TrimSpace(Split(content, <<Chr["|"]>>)[i])]

\* Every cp with an element that is no name has, as its keyword list, the
\* pieces of the last such element.
KeywordsAreLastPipePieces(elems, entries) ==
    \A i \in 1..Len(elems) :
        elems[i].type # TTS =>
            /\ elems[i].cp \in DOMAIN entries
            /\ entries[elems[i].cp].annotations =
                  PipePieces(elems[Greatest(KeywordElems(elems, elems[i].cp))].content)

\* C18: annotationsInFile stores for every element that is no name the
\* content split on "|" only, each piece trimmed, as the keyword list of the
\* entry; a later such element of the same cp replaces the list.
C18_KeywordsSplitOnPipeOnly ==
    (callPc = "done" /\ callIn.fn = "annotationsInFile") =>
        KeywordsAreLastPipePieces(callIn.elems, callOut.entries)

\* The same statement for the loop of the variant with a cache directory.
CacheVariantKeywordsSplitOnPipeOnly ==
    (callPc = "done" /\ callIn.fn = "annotationData") =>
        KeywordsAreLastPipePieces(callIn.elems, callOut.entries)

\* That loop kept the keyword of two words of the last of two elements of one
\* cp as one keyword.
CacheVariantWitness ==
    /\ callPc = "done"
    /\ callIn.fn = "annotationData"
    /\ Len(callIn.elems) = 2
    /\ callIn.elems[1].cp = <<E.thumb>>
    /\ callIn.elems[2].cp = <<E.thumb>>
    /\ callOut.entries[<<E.thumb>>].annotations =
          <<S(<<"t", "h", "u", "m", "b", "s", " ", "u", "p">>), S(<<"h", "a", "n", "d">>)>>

=============================================================================
